---- MODULE Spec2Model ----
(***************************************************************************)
(* Model of the two DIDComm message classes of                             *)
(* packages/core/.../protocol/v1/messages/V1ProposeCredentialMessage.ts:   *)
(* V1ProposeCredentialMessage and BatchPickupMessage.                      *)
(*                                                                         *)
(* One message object lives in the state.  It is constructed from an       *)
(* options bundle (or from no bundle at all, as the deserialiser does),    *)
(* and then read by getAttachment, by the validation pass that evaluates   *)
(* the field decorators, and by serialisation to the wire object.          *)
(***************************************************************************)
EXTENDS Integers, Sequences, FiniteSets, TLC

VARIABLES
    msg,    \* the message object, NoMsg before construction
    opts,   \* the options bundle the constructor received
    ret     \* operation that ran last and the value it returned

vars == <<msg, opts, ret>>

(***************************************************************************)
(* Bounds of the model.                                                    *)
(***************************************************************************)
MaxVersionLen == 5      \* longest schema-version string enumerated
MaxAttachments == 2     \* longest attachments list enumerated
MaxHalves == 4          \* largest batch size enumerated, in halves

(***************************************************************************)
(* JavaScript values.  A string carries its characters, a number is kept   *)
(* in halves so that a non-integer number (1.5 is 3 halves) exists.        *)
(***************************************************************************)
Undef == [t |-> "undefined"]
Str(s) == [t |-> "string", s |-> s]
Num(h) == [t |-> "number", halves |-> h]
Obj(c, r) == [t |-> "object", class |-> c, ref |-> r]
Arr(items) == [t |-> "array", items |-> items]

NoMsg == [class |-> "none"]

\* `x ?? y`: y only when x is null or undefined.
NullishCoalesce(x, y) == IF x.t \in {"undefined", "null"} THEN y ELSE x

\* JavaScript truthiness of a value, as `||` and `if (...)` test it.
Truthy(x) ==
    CASE x.t \in {"undefined", "null"} -> FALSE
      [] x.t = "string" -> Len(x.s) > 0
      [] x.t = "number" -> x.halves # 0
      [] OTHER -> TRUE

\* `x || y`: y whenever x is falsy.
LogicalOr(x, y) == IF Truthy(x) THEN x ELSE y

\* `a[i]` on a JavaScript array, zero-based: undefined past the end.
Index(a, i) ==
    IF i >= 0 /\ i + 1 <= Len(a.items) THEN a.items[i + 1] ELSE Undef

(***************************************************************************)
(* Strings the model enumerates.  Schema versions are all strings over a   *)
(* digit, a dot and a letter up to MaxVersionLen characters.               *)
(***************************************************************************)
Chars == {"1", ".", "a"}
DigitChars == {"1"}
StringsUpTo(n) == UNION {[1..k -> Chars] : k \in 0..n}

DidSample == <<"D", "1">>
SchemaIdSample == <<"D", "1", ":", "2">>
CredDefIdSample == <<"D", "1", ":", "3">>

(***************************************************************************)
(* The patterns imported from utils.  Their text lies outside this file;   *)
(* schemaVersionRegex is modelled after the format its validation message  *)
(* documents (X.X or X.X.X, X a run of digits), the identifier patterns    *)
(* by the sample identifiers they accept.                                  *)
(***************************************************************************)
RECURSIVE SkipDigits(_, _)
SkipDigits(s, i) ==
    IF i <= Len(s) /\ s[i] \in DigitChars THEN SkipDigits(s, i + 1) ELSE i

schemaVersionRegex(s) ==
    LET a == SkipDigits(s, 1) IN
    /\ a > 1
    /\ a <= Len(s)
    /\ s[a] = "."
    /\ LET b == SkipDigits(s, a + 1) IN
       /\ b > a + 1
       /\ \/ b = Len(s) + 1
          \/ /\ b <= Len(s)
             /\ s[b] = "."
             /\ LET c == SkipDigits(s, b + 1) IN c > b + 1 /\ c = Len(s) + 1

indyDidRegex(s) == s = DidSample
schemaIdRegex(s) == s = SchemaIdSample
credDefIdRegex(s) == s = CredDefIdSample

(***************************************************************************)
(* Inputs.                                                                 *)
(***************************************************************************)
IdOptions == {Undef, Str(<<>>), Str(<<"m", "1">>)}
GeneratedIds == {Str(<<"u", "1">>), Str(<<"u", "2">>)}

Attachments == {Obj("Attachment", "att1"), Obj("Attachment", "att2")}
AttachmentLists == UNION {[1..k -> Attachments] : k \in 0..MaxAttachments}
AttachmentsOptions == {Undef} \cup {Arr(l) : l \in AttachmentLists}

Preview == Obj("V1CredentialPreview", "preview1")
VersionSamples == {<<"1", ".", "1">>, <<"1">>}

\* Bundles in which every field varies together.
ProposeProduct ==
    [t : {"object"},
     id : IdOptions,
     comment : {Undef, Str(<<"h", "i">>)},
     credentialProposal : {Undef, Preview},
     schemaIssuerDid : {Undef, Str(DidSample), Str(SchemaIdSample)},
     schemaId : {Undef, Str(SchemaIdSample), Str(DidSample)},
     schemaName : {Undef, Str(<<"n">>)},
     schemaVersion : {Undef} \cup {Str(s) : s \in VersionSamples},
     credentialDefinitionId : {Undef, Str(CredDefIdSample), Str(DidSample)},
     issuerDid : {Undef, Str(DidSample), Str(SchemaIdSample)},
     attachments : AttachmentsOptions]

\* Bundles that carry only a schema version, every enumerated string.
ProposeVersions ==
    [t : {"object"},
     id : {Undef},
     comment : {Undef},
     credentialProposal : {Undef},
     schemaIssuerDid : {Undef},
     schemaId : {Undef},
     schemaName : {Undef},
     schemaVersion : {Str(s) : s \in StringsUpTo(MaxVersionLen)},
     credentialDefinitionId : {Undef},
     issuerDid : {Undef},
     attachments : {Undef}]

ProposeCredentialMessageOptions == ProposeProduct \cup ProposeVersions

BatchPickupMessageOptions ==
    [t : {"object"},
     id : IdOptions,
     batchSize : {Undef, Str(<<"1">>)} \cup {Num(h) : h \in -2..MaxHalves}]

(***************************************************************************)
(* V1ProposeCredentialMessage                                              *)
(***************************************************************************)
V1ProposeCredentialMessage_type_v2 ==
    Str("https://didcomm.org/issue-credential/2.0/propose-credential")

V1ProposeCredentialMessage_type ==
    Str("https://didcomm.org/issue-credential/1.0/propose-credential")

\* The object after super() and the field initialisers, before the body.
ProposeFresh ==
    [class |-> "V1ProposeCredentialMessage",
     type |-> V1ProposeCredentialMessage_type,
     id |-> Undef,
     comment |-> Undef,
     credentialProposal |-> Undef,
     schemaIssuerDid |-> Undef,
     schemaId |-> Undef,
     schemaName |-> Undef,
     schemaVersion |-> Undef,
     credentialDefinitionId |-> Undef,
     issuerDid |-> Undef,
     appendedAttachments |-> Undef]

ProposeAssign(options, id) ==
    [ProposeFresh EXCEPT
        !.id = id,
        !.comment = options.comment,
        !.credentialProposal = options.credentialProposal,
        !.schemaIssuerDid = options.schemaIssuerDid,
        !.schemaId = options.schemaId,
        !.schemaName = options.schemaName,
        !.schemaVersion = options.schemaVersion,
        !.credentialDefinitionId = options.credentialDefinitionId,
        !.issuerDid = options.issuerDid,
        !.appendedAttachments = options.attachments]

\* Mutant: the constructor gives an omitted comment the empty string.
V1ProposeCredentialMessage_defaultComment(options, generated) ==
    IF Truthy(options)
    THEN [ProposeAssign(options, NullishCoalesce(options.id, generated))
            EXCEPT !.comment = NullishCoalesce(options.comment, Str(<<>>))]
    ELSE ProposeFresh

\* Mutant: the constructor rejects a malformed schema version by dropping it.
V1ProposeCredentialMessage_checked(options, generated) ==
    IF Truthy(options)
    THEN [ProposeAssign(options, NullishCoalesce(options.id, generated))
            EXCEPT !.schemaVersion =
                IF options.schemaVersion.t = "string"
                   /\ schemaVersionRegex(options.schemaVersion.s)
                THEN options.schemaVersion ELSE Undef]
    ELSE ProposeFresh

V1ProposeCredentialMessage(options, generated) ==
    IF Truthy(options)
    THEN ProposeAssign(options, NullishCoalesce(options.id, generated))
    ELSE ProposeFresh

\* Mutant: the accessor returns the last attachment.
getAttachment_last(m) ==
    IF Truthy(m.appendedAttachments)
    THEN Index(m.appendedAttachments, Len(m.appendedAttachments.items) - 1)
    ELSE Undef

getAttachment(m) ==
    IF Truthy(m.appendedAttachments)
    THEN Index(m.appendedAttachments, 0)
    ELSE Undef

(***************************************************************************)
(* BatchPickupMessage                                                      *)
(***************************************************************************)
BatchPickupMessage_type ==
    Str("https://didcomm.org/messagepickup/1.0/batch-pickup")

BatchFresh ==
    [class |-> "BatchPickupMessage",
     type |-> BatchPickupMessage_type,
     id |-> Undef,
     batchSize |-> Undef]

BatchPickupMessage(options, generated) ==
    IF Truthy(options)
    THEN [BatchFresh EXCEPT
            !.id = LogicalOr(options.id, generated),
            !.batchSize = options.batchSize]
    ELSE BatchFresh

(***************************************************************************)
(* The validation pass: class-validator evaluating the field decorators.   *)
(* Each decorator yields the errors it reports on a property; IsOptional   *)
(* switches the property's other decorators off for a missing value.       *)
(***************************************************************************)
ValidationError(property, constraint, message) ==
    [property |-> property, constraint |-> constraint, message |-> message]

IsOptional(v) == v.t \in {"undefined", "null"}

IsString(property, v) ==
    IF v.t = "string" THEN {}
    ELSE {ValidationError(property, "isString", "$property must be a string")}

IsInstance(property, v, class) ==
    IF v.t = "object" /\ v.class = class THEN {}
    ELSE {ValidationError(property, "isInstance",
            "$property must be an instance of $constraintValue")}

\* pattern.test(s), the pattern given by its imported name.
RegExpTest(pattern, s) ==
    CASE pattern = "indyDidRegex" -> indyDidRegex(s)
      [] pattern = "schemaIdRegex" -> schemaIdRegex(s)
      [] pattern = "schemaVersionRegex" -> schemaVersionRegex(s)
      [] pattern = "credDefIdRegex" -> credDefIdRegex(s)

Matches(property, v, pattern, message) ==
    IF v.t = "string" /\ RegExpTest(pattern, v.s) THEN {}
    ELSE {ValidationError(property, "matches", message)}

MatchesDefaultMessage == "$property must match $constraintValue regular expression"

IsInt(property, v) ==
    IF v.t = "number" /\ v.halves % 2 = 0 THEN {}
    ELSE {ValidationError(property, "isInt", "$property must be an integer number")}

comment_errors(v) ==
    IF IsOptional(v) THEN {} ELSE IsString("comment", v)

credentialProposal_errors(v) ==
    IF IsOptional(v) THEN {}
    ELSE IsInstance("credentialProposal", v, "V1CredentialPreview")

schemaIssuerDid_errors(v) ==
    IF IsOptional(v) THEN {}
    ELSE IsString("schemaIssuerDid", v)
         \cup Matches("schemaIssuerDid", v, "indyDidRegex", MatchesDefaultMessage)

schemaId_errors(v) ==
    IF IsOptional(v) THEN {}
    ELSE IsString("schemaId", v)
         \cup Matches("schemaId", v, "schemaIdRegex", MatchesDefaultMessage)

schemaName_errors(v) ==
    IF IsOptional(v) THEN {} ELSE IsString("schemaName", v)

\* Mutant: the custom message is left out of the Matches decorator.
schemaVersion_errors_defaultMessage(v) ==
    IF IsOptional(v) THEN {}
    ELSE IsString("schemaVersion", v)
         \cup Matches("schemaVersion", v, "schemaVersionRegex", MatchesDefaultMessage)

schemaVersion_errors(v) ==
    IF IsOptional(v) THEN {}
    ELSE IsString("schemaVersion", v)
         \cup Matches("schemaVersion", v, "schemaVersionRegex",
                      "Version must be X.X or X.X.X")

credentialDefinitionId_errors(v) ==
    IF IsOptional(v) THEN {}
    ELSE IsString("credentialDefinitionId", v)
         \cup Matches("credentialDefinitionId", v, "credDefIdRegex",
                      MatchesDefaultMessage)

\* Mutant: the IsOptional decorator is missing on issuerDid.
issuerDid_errors_required(v) ==
    IsString("issuerDid", v)
    \cup Matches("issuerDid", v, "indyDidRegex", MatchesDefaultMessage)

issuerDid_errors(v) ==
    IF IsOptional(v) THEN {}
    ELSE IsString("issuerDid", v)
         \cup Matches("issuerDid", v, "indyDidRegex", MatchesDefaultMessage)

\* Mutant: batchSize is declared optional.
batchSize_errors_optional(v) ==
    IF IsOptional(v) THEN {} ELSE IsInt("batchSize", v)

batchSize_errors(v) == IsInt("batchSize", v)

\* All errors the decorators of this file report on a message.
validate(m) ==
    IF m.class = "V1ProposeCredentialMessage"
    THEN comment_errors(m.comment)
         \cup credentialProposal_errors(m.credentialProposal)
         \cup schemaIssuerDid_errors(m.schemaIssuerDid)
         \cup schemaId_errors(m.schemaId)
         \cup schemaName_errors(m.schemaName)
         \cup schemaVersion_errors(m.schemaVersion)
         \cup credentialDefinitionId_errors(m.credentialDefinitionId)
         \cup issuerDid_errors(m.issuerDid)
    ELSE batchSize_errors(m.batchSize)

(***************************************************************************)
(* Serialisation to the wire object.  The Expose decorators of this file   *)
(* name the wire keys; a property without one keeps its own name.  The     *)
(* keys of the inherited id, type and attachments come from the base       *)
(* class.                                                                  *)
(***************************************************************************)
ProposeProperties ==
    {"comment", "credentialProposal", "schemaIssuerDid", "schemaId",
     "schemaName", "schemaVersion", "credentialDefinitionId", "issuerDid"}
BatchProperties == {"batchSize"}
BaseProperties == {"id", "type", "appendedAttachments"}

Properties(class) ==
    IF class = "V1ProposeCredentialMessage"
    THEN ProposeProperties \cup BaseProperties
    ELSE BatchProperties \cup {"id", "type"}

BaseWireName(p) ==
    CASE p = "id" -> "@id"
      [] p = "type" -> "@type"
      [] p = "appendedAttachments" -> "~attach"

\* Mutant: issuerDid is exposed under the wire name of schemaIssuerDid.
WireName_clash(p) ==
    CASE p = "credentialProposal" -> "credential_proposal"
      [] p = "schemaIssuerDid" -> "schema_issuer_did"
      [] p = "schemaId" -> "schema_id"
      [] p = "schemaName" -> "schema_name"
      [] p = "schemaVersion" -> "schema_version"
      [] p = "credentialDefinitionId" -> "cred_def_id"
      [] p = "issuerDid" -> "schema_issuer_did"
      [] p = "batchSize" -> "batch_size"
      [] p \in BaseProperties -> BaseWireName(p)
      [] OTHER -> p

WireName(p) ==
    CASE p = "credentialProposal" -> "credential_proposal"
      [] p = "schemaIssuerDid" -> "schema_issuer_did"
      [] p = "schemaId" -> "schema_id"
      [] p = "schemaName" -> "schema_name"
      [] p = "schemaVersion" -> "schema_version"
      [] p = "credentialDefinitionId" -> "cred_def_id"
      [] p = "issuerDid" -> "issuer_did"
      [] p = "batchSize" -> "batch_size"
      [] p \in BaseProperties -> BaseWireName(p)
      [] OTHER -> p

\* The plain form of a value: a class instance loses its class.
Plain(v) ==
    CASE v.t = "object" -> [t |-> "plain", ref |-> v.ref]
      [] v.t = "array" ->
           [t |-> "array",
            items |-> [i \in 1..Len(v.items) |->
                         [t |-> "plain", ref |-> v.items[i].ref]]]
      [] OTHER -> v

\* The wire object: one key per property that holds a value.
toJSON(m) ==
    LET set == {p \in Properties(m.class) : m[p].t # "undefined"}
        keys == {WireName(p) : p \in set}
    IN [k \in keys |-> Plain(m[CHOOSE p \in set : WireName(p) = k])]

(***************************************************************************)
(* The state machine.                                                      *)
(***************************************************************************)
Init ==
    /\ msg = NoMsg
    /\ opts = Undef
    /\ ret = [op |-> "none", value |-> Undef]

NewV1ProposeCredentialMessage ==
    /\ msg = NoMsg
    /\ \E options \in ProposeCredentialMessageOptions \cup {Undef},
          generated \in GeneratedIds :
        /\ msg' = V1ProposeCredentialMessage(options, generated)
        /\ opts' = options
    /\ ret' = [op |-> "new", value |-> Undef]

NewBatchPickupMessage ==
    /\ msg = NoMsg
    /\ \E options \in BatchPickupMessageOptions \cup {Undef},
          generated \in GeneratedIds :
        /\ msg' = BatchPickupMessage(options, generated)
        /\ opts' = options
    /\ ret' = [op |-> "new", value |-> Undef]

GetAttachment ==
    /\ msg.class = "V1ProposeCredentialMessage"
    /\ ret' = [op |-> "getAttachment", value |-> getAttachment(msg)]
    /\ UNCHANGED <<msg, opts>>

Validate ==
    /\ msg # NoMsg
    /\ ret' = [op |-> "validate", value |-> validate(msg)]
    /\ UNCHANGED <<msg, opts>>

ToJSON ==
    /\ msg # NoMsg
    /\ ret' = [op |-> "toJSON", value |-> toJSON(msg)]
    /\ UNCHANGED <<msg, opts>>

Next ==
    \/ NewV1ProposeCredentialMessage
    \/ NewBatchPickupMessage
    \/ GetAttachment
    \/ Validate
    \/ ToJSON

Spec == Init /\ [][Next]_vars

(***************************************************************************)
(* Properties.                                                             *)
(***************************************************************************)
IsPropose == msg.class = "V1ProposeCredentialMessage"
IsBatch == msg.class = "BatchPickupMessage"
FromBundle == msg # NoMsg /\ opts.t = "object"
NonEmptyString(v) == v.t = "string" /\ Len(v.s) > 0
ErrorsOn(errors, property) == {e \in errors : e.property = property}

\* The wire names the documentation declares, property by property.
DeclaredWireName ==
    [comment |-> "comment",
     credentialProposal |-> "credential_proposal",
     schemaIssuerDid |-> "schema_issuer_did",
     schemaId |-> "schema_id",
     schemaName |-> "schema_name",
     schemaVersion |-> "schema_version",
     credentialDefinitionId |-> "cred_def_id",
     issuerDid |-> "issuer_did",
     batchSize |-> "batch_size"]

\* A string of the form X.X or X.X.X: one or two dots, each between digits.
IsVersionForm(s) ==
    \E dots \in SUBSET (1..Len(s)) :
        /\ Cardinality(dots) \in {1, 2}
        /\ \A i \in 1..Len(s) :
              IF i \in dots THEN s[i] = "." ELSE s[i] \in DigitChars
        /\ \A i \in dots : i > 1 /\ i < Len(s) /\ (i + 1) \notin dots

\* C1: after construction from an options bundle the id is a non-empty
\* string: the caller's id when a non-empty one was supplied, a generated
\* id otherwise.
C1_IdPresentNonEmpty ==
    FromBundle =>
        /\ NonEmptyString(msg.id)
        /\ IF NonEmptyString(opts.id)
           THEN msg.id = opts.id
           ELSE msg.id \in GeneratedIds

\* C2: every supplied field is stored unchanged, serialisation emits each
\* supplied value under its declared wire name, and no two properties share
\* a wire name.
C2_FieldsStoredAndMapped ==
    /\ (FromBundle /\ IsPropose) =>
          /\ \A p \in ProposeProperties : msg[p] = opts[p]
          /\ msg.appendedAttachments = opts.attachments
    /\ (FromBundle /\ IsBatch) => msg.batchSize = opts.batchSize
    /\ (FromBundle /\ ret.op = "toJSON") =>
          \A p \in (IF IsPropose THEN ProposeProperties ELSE BatchProperties) :
              opts[p].t # "undefined" =>
                  /\ DeclaredWireName[p] \in DOMAIN ret.value
                  /\ ret.value[DeclaredWireName[p]] = Plain(opts[p])
    /\ msg # NoMsg =>
          \A p, q \in Properties(msg.class) : p # q => WireName(p) # WireName(q)

C2_Witness ==
    /\ FromBundle /\ IsPropose /\ ret.op = "toJSON"
    /\ \A p \in ProposeProperties : opts[p].t # "undefined"
    /\ validate(msg) = {}
    /\ ret.value["cred_def_id"] = Str(CredDefIdSample)

\* C3: getAttachment returns the first of the attachments given at
\* construction, undefined when none were given or the list was empty, and
\* leaves the message as the constructor built it.
C3_GetAttachmentFirst ==
    (FromBundle /\ ret.op = "getAttachment") =>
        /\ IF opts.attachments.t = "array" /\ Len(opts.attachments.items) >= 1
           THEN ret.value = opts.attachments.items[1]
           ELSE ret.value = Undef
        /\ msg = V1ProposeCredentialMessage(opts, msg.id)

C3_Witness ==
    /\ FromBundle /\ ret.op = "getAttachment"
    /\ opts.attachments.t = "array"
    /\ Len(opts.attachments.items) = 2
    /\ opts.attachments.items[1] # opts.attachments.items[2]
    /\ ret.value = opts.attachments.items[1]

\* C4: the wire object of a proposal holds the key of an optional field
\* exactly when the field was supplied.
C4_OmittedFieldNoKey ==
    (FromBundle /\ IsPropose /\ ret.op = "toJSON") =>
        \A p \in ProposeProperties :
            (DeclaredWireName[p] \in DOMAIN ret.value) <=> (opts[p].t # "undefined")

C4_Witness ==
    /\ FromBundle /\ IsPropose /\ ret.op = "toJSON"
    /\ opts.comment = Undef
    /\ opts.schemaName # Undef
    /\ "comment" \notin DOMAIN ret.value
    /\ "schema_name" \in DOMAIN ret.value

\* C5: validating a schemaVersion string not of the form X.X or X.X.X
\* reports 'Version must be X.X or X.X.X' on schemaVersion; a string of
\* that form gets no error on the field.
C5_SchemaVersionMessage ==
    (FromBundle /\ IsPropose /\ ret.op = "validate"
        /\ opts.schemaVersion.t = "string") =>
        IF IsVersionForm(opts.schemaVersion.s)
        THEN ErrorsOn(ret.value, "schemaVersion") = {}
        ELSE ValidationError("schemaVersion", "matches",
                             "Version must be X.X or X.X.X") \in ret.value

C5_Witness ==
    /\ FromBundle /\ IsPropose /\ ret.op = "validate"
    /\ opts.schemaVersion = Str(<<"1", ".", "1", ".">>)
    /\ ErrorsOn(ret.value, "schemaVersion") # {}

\* C6: in every state the type tag of a message is the URI of its class.
C6_TypeConstant ==
    /\ (msg # NoMsg /\ IsPropose) =>
          msg.type = Str("https://didcomm.org/issue-credential/1.0/propose-credential")
    /\ (msg # NoMsg /\ IsBatch) =>
          msg.type = Str("https://didcomm.org/messagepickup/1.0/batch-pickup")

C6_Witness ==
    /\ FromBundle /\ IsPropose /\ ret.op = "validate"
    /\ opts.comment # Undef
    /\ NonEmptyString(opts.id)

\* A bundle that violates a declared format constraint.
Malformed(o) ==
    \/ /\ "schemaVersion" \in DOMAIN o
       /\ \/ o.schemaVersion.t = "string" /\ ~IsVersionForm(o.schemaVersion.s)
          \/ o.schemaIssuerDid.t = "string" /\ ~indyDidRegex(o.schemaIssuerDid.s)
          \/ o.issuerDid.t = "string" /\ ~indyDidRegex(o.issuerDid.s)
          \/ o.schemaId.t = "string" /\ ~schemaIdRegex(o.schemaId.s)
          \/ /\ o.credentialDefinitionId.t = "string"
             /\ ~credDefIdRegex(o.credentialDefinitionId.s)
    \/ /\ "batchSize" \in DOMAIN o
       /\ ~(o.batchSize.t = "number" /\ o.batchSize.halves % 2 = 0)

\* C7: construction from values that violate the format constraints
\* succeeds and stores them as given; errors appear only as the result of
\* the validation pass, which then reports them.
C7_ConstructionNeverValidates ==
    (FromBundle /\ Malformed(opts)) =>
        /\ IsPropose =>
              /\ \A p \in ProposeProperties : msg[p] = opts[p]
              /\ msg.appendedAttachments = opts.attachments
        /\ IsBatch => msg.batchSize = opts.batchSize
        /\ ret.op = "new" => ret.value = Undef
        /\ ret.op = "validate" => ret.value # {}

C7_Witness ==
    /\ FromBundle /\ IsPropose /\ ret.op = "new"
    /\ opts.schemaVersion = Str(<<"1">>)
    /\ opts.issuerDid = Str(SchemaIdSample)
    /\ msg.schemaVersion = Str(<<"1">>)

PatternOf(p, s) ==
    CASE p = "schemaIssuerDid" -> indyDidRegex(s)
      [] p = "schemaId" -> schemaIdRegex(s)
      [] p = "schemaVersion" -> IsVersionForm(s)
      [] p = "credentialDefinitionId" -> credDefIdRegex(s)
      [] p = "issuerDid" -> indyDidRegex(s)

PatternProperties ==
    {"schemaIssuerDid", "schemaId", "schemaVersion", "credentialDefinitionId",
     "issuerDid"}

\* C8: validation reports an error on a pattern field exactly when the
\* field is present and does not match its pattern, whatever the other
\* fields hold; schemaName is in error only when present and not a string.
C8_PatternFieldErrors ==
    (msg # NoMsg /\ IsPropose /\ ret.op = "validate") =>
        /\ \A p \in PatternProperties :
              (ErrorsOn(ret.value, p) # {}) <=>
                  /\ msg[p].t # "undefined"
                  /\ ~(msg[p].t = "string" /\ PatternOf(p, msg[p].s))
        /\ (ErrorsOn(ret.value, "schemaName") # {}) <=>
              (msg.schemaName.t \notin {"undefined", "string"})

C8_Witness ==
    /\ FromBundle /\ IsPropose /\ ret.op = "validate"
    /\ opts.schemaIssuerDid = Str(DidSample)
    /\ opts.issuerDid = Undef
    /\ opts.schemaId = Str(DidSample)
    /\ ErrorsOn(ret.value, "schemaId") # {}
    /\ ErrorsOn(ret.value, "schemaIssuerDid") = {}
    /\ ErrorsOn(ret.value, "issuerDid") = {}

\* C9: validation reports an error on batchSize exactly when it is not an
\* integer, a batch size that was never supplied included.
C9_BatchSizeRequired ==
    (msg # NoMsg /\ IsBatch /\ ret.op = "validate") =>
        ((ErrorsOn(ret.value, "batchSize") # {}) <=>
            ~(msg.batchSize.t = "number" /\ msg.batchSize.halves % 2 = 0))

C9_Witness ==
    /\ FromBundle /\ IsBatch /\ ret.op = "validate"
    /\ opts.batchSize = Undef
    /\ ErrorsOn(ret.value, "batchSize") # {}

\* C10: both constructors decide alike whether the id is the caller's or a
\* generated one, and without an options bundle neither assigns any field.
C10_SameIdRule ==
    /\ (FromBundle /\ IsPropose) =>
          \A g \in GeneratedIds :
              (msg.id = opts.id) <=>
                  (BatchPickupMessage(
                       [t |-> "object", id |-> opts.id, batchSize |-> Num(2)],
                       g).id = opts.id)
    /\ (msg # NoMsg /\ opts = Undef /\ IsPropose) => msg = ProposeFresh
    /\ (msg # NoMsg /\ opts = Undef /\ IsBatch) => msg = BatchFresh

====
